---- MODULE Spec2Model ----
(***************************************************************************)
(* Model of the rolldown/tsdown UnoCSS plugin (src/src/index.ts).          *)
(*                                                                         *)
(* The plugin is a closure over `uno`, `context`, `tokens` and `cleanup`   *)
(* with three hooks: buildStart, transform.handler and generateBundle.     *)
(* Every `await` of an external call (loadConfig, createGenerator, a       *)
(* transformer, onTransform, uno.generate) is a suspension point, so each  *)
(* hook is split into one action per segment between two such awaits.     *)
(* Code between two awaits runs to completion on the single event loop.    *)
(*                                                                         *)
(* Source text is modelled as a sequence of words.  A transformer rewrites *)
(* words, the generator's scan keeps the words its rules match.            *)
(***************************************************************************)
EXTENDS Integers, Sequences, FiniteSets

\* ------------------------------------------------------------------------
\* Bounds of the model
\* ------------------------------------------------------------------------
MaxBuilds == 2
MaxCleanup == 2
MaxInvalidations == 2

\* ------------------------------------------------------------------------
\* Files, filter, source texts
\* ------------------------------------------------------------------------
Files == {"a.tsx", "b.jsx", "c.ts"}

Ext(id) ==
  CASE id = "a.tsx" -> "tsx"
    [] id = "b.jsx" -> "jsx"
    [] OTHER -> "ts"

\* filter = { id: /\.[jt]sx$/ }: the host calls transform.handler only for
\* identifiers the filter accepts.
filter(id) == Ext(id) \in {"jsx", "tsx"}

Absent == <<"<absent>">>

Codes ==
  { <<"hover:(a b)", "div">>,
    <<"hover:a", "m-1">> }

\* The modules of one build: a file the filter accepts is absent or has one
\* of the texts; the file the filter rejects is always there.
InputChoices ==
  {in \in [Files -> Codes \cup {Absent}] :
     \A f \in Files : ~filter(f) => in[f] = <<"hover:a", "m-1">>}

fileName == "uno.css"

\* ------------------------------------------------------------------------
\* The generator (external collaborator, reached through uno.generate)
\* ------------------------------------------------------------------------
\* Words the generator's rules match.
Rules == {"hover:a", "hover:b", "ha", "m-1"}

Contains(s, x) == \E i \in 1..Len(s) : s[i] = x

\* Variant of SetAdd: an array push, which keeps duplicates.
SetAddPush(s, x) == Append(s, x)

\* Set.prototype.add on an insertion-ordered Set.
SetAdd(s, x) == IF Contains(s, x) THEN s ELSE Append(s, x)

RECURSIVE AddAll(_, _)
\* matched.forEach((t) => tokens.add(t))
AddAll(s, m) == IF m = <<>> THEN s ELSE AddAll(SetAdd(s, Head(m)), Tail(m))

Elems(s) == {s[i] : i \in 1..Len(s)}

RECURSIVE Scan(_)
\* uno.generate(finalCode, ...).matched: the words of the text that a rule
\* matches, as an insertion-ordered Set.
Scan(text) ==
  IF text = <<>> THEN <<>>
  ELSE LET rest == Scan(SubSeq(text, 1, Len(text) - 1))
           w == text[Len(text)]
       IN IF w \in Rules THEN SetAdd(rest, w) ELSE rest

\* uno.generate(tokens).css: one rule per token that a rule matches; the
\* stylesheet does not depend on insertion order.
GenerateCSS(toks) == {[selector |-> t] : t \in Elems(toks) \cap Rules}

\* ------------------------------------------------------------------------
\* Transformers (uno.config.transformers)
\* ------------------------------------------------------------------------
VariantGroup == [kind |-> "variantGroup", idFilter |-> "none"]
VariantGroupTsx == [kind |-> "variantGroup", idFilter |-> "tsx"]
Rename == [kind |-> "rename", idFilter |-> "none"]
Strip == [kind |-> "strip", idFilter |-> "none"]

TransformerLists ==
  { <<>>,
    <<VariantGroup, Rename>>,
    <<Rename, VariantGroup>>,
    <<VariantGroupTsx, Strip>> }

\* idFilter && !idFilter(id)  (negated: the transformer is applied)
Accepts(t, id) == t.idFilter = "none" \/ Ext(id) = t.idFilter

RECURSIVE Rewrite(_, _)
\* What transform(code, id, context) does to the MagicString.
\*   variantGroup: "hover:(a b)" -> "hover:a hover:b"
\*   rename:       "hover:a"     -> "ha"
\*   strip:        removes "div"
Rewrite(kind, text) ==
  IF text = <<>> THEN <<>>
  ELSE LET w == Head(text)
           r == Rewrite(kind, Tail(text))
       IN CASE kind = "variantGroup" /\ w = "hover:(a b)" -> <<"hover:a", "hover:b">> \o r
            [] kind = "rename" /\ w = "hover:a" -> <<"ha">> \o r
            [] kind = "strip" /\ w = "div" -> r
            [] OTHER -> <<w>> \o r

RECURSIVE Touched(_, _, _)
Touched(kind, text, p) ==
  IF p > Len(text) THEN <<>>
  ELSE LET hit == \/ kind = "variantGroup" /\ text[p] = "hover:(a b)"
                  \/ kind = "rename" /\ text[p] = "hover:a"
       IN (IF hit THEN <<[by |-> kind, offset |-> p]>> ELSE <<>>)
            \o Touched(kind, text, p + 1)

\* result?.highlightAnnotations: strip returns nothing, the others one
\* annotation per span they rewrote.
HighlightAnnotations(kind, text) ==
  IF kind = "strip" THEN <<>> ELSE Touched(kind, text, 1)

\* Variant of NextIdx: the idFilter is not consulted.
NextIdxUnfiltered(list, id, from) ==
  IF from <= Len(list) THEN from ELSE Len(list) + 1

\* The for-loop of applyTransformers advancing over rejected transformers:
\* the first index >= from whose idFilter accepts id, Len(list)+1 if none.
NextIdx(list, id, from) ==
  LET ok == {j \in from..Len(list) : Accepts(list[j], id)}
  IN IF ok = {} THEN Len(list) + 1
     ELSE CHOOSE j \in ok : \A k \in ok : j <= k

\* ------------------------------------------------------------------------
\* onTransform option: not supplied, or a
\* callback that appends a word to the buffer
\* ------------------------------------------------------------------------
OnTransformChoices == {"none", "append"}

CallbackEdit(cb, text) == IF cb = "append" THEN Append(text, "m-1") ELSE text

\* ------------------------------------------------------------------------
\* State
\* ------------------------------------------------------------------------
VARIABLES
  generateCSS,    \* option generateCSS
  onTransform,    \* option onTransform
  userConfig,     \* what loadConfig(root, inlineConfig) resolves to
  config,         \* const config of buildStart (captured by getConfig)
  uno,            \* let uno
  context,        \* let context
  tokens,         \* const tokens = new Set<string>()
  cleanup,        \* const cleanup: VoidFunction[]
  phase,          \* where the host is in the build lifecycle
  build,          \* number of buildStart calls so far
  inputs,         \* the build's modules: file id -> source text or Absent
  pc,             \* per file: position of transform.handler
  ms,             \* per file: the MagicString
  idx,            \* per file: loop position in applyTransformers
  annotations,    \* per file: const annotations of applyTransformers
  finalCode,      \* per file: const finalCode
  scanInput,      \* per file: the text handed to uno.generate
  result,         \* per file: what the handler returned
  trace,          \* per file: the external calls made, in order
  cbArgs,         \* per file: annotations onTransform was called with
  overlapped,     \* a handler returned while another one was suspended
  finished,       \* files in the order their handler returned
  postTokens,     \* tokens of the buffers of all completed transforms
  cssInput,       \* the Set handed to uno.generate by generateBundle
  cssCalls,       \* uno.generate(tokens) calls of this build
  emitted,        \* this.emitFile calls of this build
  invoked,        \* cleanup callbacks run by the last invalidate()
  invalidations   \* number of invalidate() calls

options == <<generateCSS, onTransform, userConfig>>
closure == <<config, uno, context, tokens, cleanup>>
host == <<phase, build, inputs>>
handler == <<pc, ms, idx, annotations, finalCode, scanInput, result, trace,
             cbArgs, overlapped, finished, postTokens>>
bundle == <<cssInput, cssCalls, emitted>>
registry == <<invoked, invalidations>>
vars == <<options, closure, host, handler, bundle, registry>>

\* A binding that is not assigned yet is the empty sequence, an assigned one
\* the one-element sequence of its value.
Unset == <<>>
Some(v) == <<v>>
NoResult == <<>>
Ev(e, i) == [ev |-> e, i |-> i]

Matched == {f \in Files : filter(f)}

Init ==
  /\ generateCSS \in BOOLEAN
  /\ onTransform \in OnTransformChoices
  /\ userConfig \in TransformerLists
  /\ config = Unset
  /\ uno = Unset
  /\ context = Unset
  /\ tokens = <<>>
  /\ cleanup = <<>>
  /\ phase = "idle"
  /\ build = 0
  /\ inputs = [f \in Files |-> Absent]
  /\ pc = [f \in Files |-> "idle"]
  /\ ms = [f \in Files |-> <<>>]
  /\ idx = [f \in Files |-> 0]
  /\ annotations = [f \in Files |-> <<>>]
  /\ finalCode = [f \in Files |-> <<>>]
  /\ scanInput = [f \in Files |-> <<>>]
  /\ result = [f \in Files |-> NoResult]
  /\ trace = [f \in Files |-> <<>>]
  /\ cbArgs = [f \in Files |-> <<>>]
  /\ overlapped = FALSE
  /\ finished = <<>>
  /\ postTokens = {}
  /\ cssInput = <<>>
  /\ cssCalls = 0
  /\ emitted = <<>>
  /\ invoked = <<>>
  /\ invalidations = 0

\* ------------------------------------------------------------------------
\* buildStart
\* ------------------------------------------------------------------------
\* The host fires buildStart: once per build, again for the next build of
\* the same plugin instance.  The hook suspends in loadConfig.
BuildStartCall ==
  /\ phase \in {"idle", "bundled", "startFailed", "bundleFailed"}
  /\ build < MaxBuilds
  /\ build' = build + 1
  /\ phase' = "loading"
  /\ \E in \in InputChoices : inputs' = in
  /\ pc' = [f \in Files |-> "idle"]
  /\ ms' = [f \in Files |-> <<>>]
  /\ idx' = [f \in Files |-> 0]
  /\ annotations' = [f \in Files |-> <<>>]
  /\ finalCode' = [f \in Files |-> <<>>]
  /\ scanInput' = [f \in Files |-> <<>>]
  /\ result' = [f \in Files |-> NoResult]
  /\ trace' = [f \in Files |-> <<>>]
  /\ cbArgs' = [f \in Files |-> <<>>]
  /\ overlapped' = FALSE
  /\ finished' = <<>>
  /\ cssInput' = <<>>
  /\ cssCalls' = 0
  /\ emitted' = <<>>
  /\ UNCHANGED <<options, closure, postTokens, registry>>

\* const { config } = await loadConfig(root, inlineConfig);
\* the hook suspends again in createGenerator.
LoadConfigReturn ==
  /\ phase = "loading"
  /\ config' = Some(userConfig)
  /\ phase' = "creating"
  /\ UNCHANGED <<options, uno, context, tokens, cleanup, build, inputs,
                 handler, bundle, registry>>

\* Variant of CreateGeneratorReturn: the context is not assigned.
CreateGeneratorReturnOnly ==
  /\ phase = "creating"
  /\ uno' = Some([config |-> [transformers |-> config[1]]])
  /\ phase' = "transforming"
  /\ UNCHANGED <<options, config, context, tokens, cleanup, build, inputs,
                 handler, bundle, registry>>

\* uno = await createGenerator(config); context = {...}
CreateGeneratorReturn ==
  /\ phase = "creating"
  /\ uno' = Some([config |-> [transformers |-> config[1]]])
  /\ context' = Some([uno |-> uno'[1], config |-> config[1]])
  /\ phase' = "transforming"
  /\ UNCHANGED <<options, config, tokens, cleanup, build, inputs,
                 handler, bundle, registry>>

\* loadConfig or createGenerator rejects: buildStart rejects.
BuildStartFail ==
  /\ phase \in {"loading", "creating"}
  /\ phase' = "startFailed"
  /\ UNCHANGED <<options, closure, build, inputs, handler, bundle, registry>>

\* ------------------------------------------------------------------------
\* context.invalidate / context.onInvalidate
\* The context is handed out only as the third argument of a transformer
\* (transform(code, id, context)), so both are called while a transformer
\* that uses the context runs; of the transformers here, strip does.
\* ------------------------------------------------------------------------
\* const result = await transform(code, id, context): a running transformer
\* that uses the context it was given.
HoldsContext ==
  \E f \in Files :
    pc[f] = "transformer" /\ uno[1].config.transformers[idx[f]].kind = "strip"

\* Variant of Invalidate: the callbacks are run last-registered first.
InvalidateReversed ==
  /\ context # Unset
  /\ HoldsContext
  /\ invalidations < MaxInvalidations
  /\ invoked' = [i \in 1..Len(cleanup) |-> cleanup[Len(cleanup) + 1 - i]]
  /\ invalidations' = invalidations + 1
  /\ UNCHANGED <<options, closure, host, handler, bundle>>

\* Variant of Invalidate: the registry is emptied once its callbacks ran.
InvalidateClearing ==
  /\ context # Unset
  /\ HoldsContext
  /\ invalidations < MaxInvalidations
  /\ invoked' = cleanup
  /\ invalidations' = invalidations + 1
  /\ cleanup' = <<>>
  /\ UNCHANGED <<options, config, uno, context, tokens, host, handler, bundle>>

\* invalidate() { cleanup.forEach((c) => c()) }
Invalidate ==
  /\ context # Unset
  /\ HoldsContext
  /\ invalidations < MaxInvalidations
  /\ invoked' = cleanup
  /\ invalidations' = invalidations + 1
  /\ UNCHANGED <<options, closure, host, handler, bundle>>

\* onInvalidate(fn) { cleanup.push(fn) }: every call registers a closure of
\* its own, named by the order of registration.
OnInvalidate ==
  /\ context # Unset
  /\ HoldsContext
  /\ \E f \in Files : pc[f] = "transformer"
  /\ Len(cleanup) < MaxCleanup
  /\ cleanup' = Append(cleanup, Len(cleanup) + 1)
  /\ UNCHANGED <<options, config, uno, context, tokens, host, handler,
                 bundle, registry>>

\* ------------------------------------------------------------------------
\* transform.handler and applyTransformers
\* ------------------------------------------------------------------------
\* const list = uno.config.transformers
list == uno[1].config.transformers

\* Variant of Push: the annotations of the last transformer replace the
\* ones collected before.
PushReplacing(ann, new) == new

\* annotations.push(..._annotations)
Push(ann, new) == ann \o new

\* Variant of msToString: the original source text of the file.
msToStringOriginal(f, buf) == inputs[f]

\* const finalCode = ms.toString(): the text of file f's MagicString, whose
\* content is buf.
msToString(f, buf) == buf

\* Variant of Save: the accumulator is replaced by the file's matches.
SaveReplacing(toks, matched) == matched

\* if (matched.size > 0) { matched.forEach((t) => tokens.add(t)) }
Save(toks, matched) == IF Len(matched) > 0 THEN AddAll(toks, matched) ELSE toks

\* Variant of Returned: the code handed back is the original source text.
ReturnedOriginal(f) ==
  [code |-> inputs[f], map |-> [source |-> inputs[f], hires |-> TRUE]]

\* return { code: finalCode, map: ms.generateMap({ hires: true }) }
Returned(f) ==
  [code |-> finalCode[f], map |-> [source |-> inputs[f], hires |-> TRUE]]

RECURSIVE Applied(_, _, _, _, _)
\* The buffer after the loop of applyTransformers has gone over the
\* transformers i..n of l, starting from text.
Applied(l, id, text, i, n) ==
  IF i > n THEN text
  ELSE Applied(l, id,
               IF Accepts(l[i], id) THEN Rewrite(l[i].kind, text) ELSE text,
               i + 1, n)

RECURSIVE Collected(_, _, _, _, _)
\* The annotations applyTransformers has collected after the transformers
\* i..n of l, starting from text.
Collected(l, id, text, i, n) ==
  IF i > n THEN <<>>
  ELSE IF Accepts(l[i], id)
       THEN HighlightAnnotations(l[i].kind, text)
              \o Collected(l, id, Rewrite(l[i].kind, text), i + 1, n)
       ELSE Collected(l, id, text, i + 1, n)

\* The handler runs on from the point where the MagicString is msv, the
\* collected annotations are ann and the loop of applyTransformers is about
\* to look at index from, up to its next await:
\*   - the next transformer whose idFilter accepts the file is called, or
\*   - the loop is over and onTransform is called, or
\*   - no onTransform was supplied: the buffer is materialized and
\*     uno.generate(finalCode) is called.
Proceed(f, msv, ann, tr, from) ==
  LET j == NextIdx(list, f, from)
  IN /\ ms' = [ms EXCEPT ![f] = msv]
     /\ annotations' = [annotations EXCEPT ![f] = ann]
     /\ idx' = [idx EXCEPT ![f] = j]
     /\ IF j <= Len(list)
        THEN /\ pc' = [pc EXCEPT ![f] = "transformer"]
             /\ trace' = [trace EXCEPT ![f] = Append(tr, Ev("transform", j))]
             /\ UNCHANGED <<cbArgs, finalCode, scanInput>>
        ELSE IF onTransform # "none"
        THEN /\ pc' = [pc EXCEPT ![f] = "onTransform"]
             /\ trace' = [trace EXCEPT ![f] = Append(tr, Ev("onTransform", 0))]
             /\ cbArgs' = [cbArgs EXCEPT ![f] = ann]
             /\ UNCHANGED <<finalCode, scanInput>>
        ELSE /\ pc' = [pc EXCEPT ![f] = "scan"]
             /\ trace' = [trace EXCEPT ![f] = Append(tr, Ev("scan", 0))]
             /\ finalCode' = [finalCode EXCEPT ![f] = msToString(f, msv)]
             /\ scanInput' = [scanInput EXCEPT ![f] = finalCode'[f]]
             /\ UNCHANGED cbArgs

\* The host calls handler(code, id) for a module the filter accepts.
TransformCall(f) ==
  /\ phase = "transforming"
  /\ filter(f)
  /\ inputs[f] # Absent
  /\ pc[f] = "idle"
  /\ Proceed(f, inputs[f], <<>>, <<>>, 1)
  /\ UNCHANGED <<options, closure, host, result, overlapped, finished,
                 postTokens, bundle, registry>>

\* await transform(code, id, context) resolves.
TransformerReturn(f) ==
  /\ pc[f] = "transformer"
  /\ LET t == list[idx[f]]
     IN Proceed(f, Rewrite(t.kind, ms[f]),
                Push(annotations[f], HighlightAnnotations(t.kind, ms[f])),
                Append(trace[f], Ev("transformed", idx[f])),
                idx[f] + 1)
  /\ UNCHANGED <<options, closure, host, result, overlapped, finished,
                 postTokens, bundle, registry>>

\* Variant of TransformerFail: the rejection is caught and the loop goes on.
TransformerFailCaught(f) ==
  /\ pc[f] = "transformer"
  /\ Proceed(f, ms[f], annotations[f], Append(trace[f], Ev("throw", 0)),
             idx[f] + 1)
  /\ UNCHANGED <<options, closure, host, result, overlapped, finished,
                 postTokens, bundle, registry>>

\* await transform(code, id, context) rejects: the handler rejects.
TransformerFail(f) ==
  /\ pc[f] = "transformer"
  /\ pc' = [pc EXCEPT ![f] = "failed"]
  /\ trace' = [trace EXCEPT ![f] = Append(@, Ev("throw", 0))]
  /\ UNCHANGED <<options, closure, host, ms, idx, annotations, finalCode,
                 scanInput, result, cbArgs, overlapped, finished, postTokens,
                 bundle, registry>>

\* await onTransform(id, ms, annotations) resolves; the buffer is
\* materialized and uno.generate(finalCode) is called.
OnTransformReturn(f) ==
  /\ pc[f] = "onTransform"
  /\ ms' = [ms EXCEPT ![f] = CallbackEdit(onTransform, @)]
  /\ finalCode' = [finalCode EXCEPT ![f] = msToString(f, ms'[f])]
  /\ scanInput' = [scanInput EXCEPT ![f] = finalCode'[f]]
  /\ pc' = [pc EXCEPT ![f] = "scan"]
  /\ trace' = [trace EXCEPT ![f] =
                 @ \o <<Ev("onTransformed", 0), Ev("scan", 0)>>]
  /\ UNCHANGED <<options, closure, host, idx, annotations, result, cbArgs,
                 overlapped, finished, postTokens, bundle, registry>>

\* await onTransform(...) rejects: the handler rejects.
OnTransformFail(f) ==
  /\ pc[f] = "onTransform"
  /\ pc' = [pc EXCEPT ![f] = "failed"]
  /\ trace' = [trace EXCEPT ![f] = Append(@, Ev("throw", 0))]
  /\ UNCHANGED <<options, closure, host, ms, idx, annotations, finalCode,
                 scanInput, result, cbArgs, overlapped, finished, postTokens,
                 bundle, registry>>

\* await uno.generate(finalCode, { id, minify }) resolves; the tokens are
\* saved and the handler returns.
ScanReturn(f) ==
  /\ pc[f] = "scan"
  /\ tokens' = Save(tokens, Scan(scanInput[f]))
  /\ result' = [result EXCEPT ![f] = Some(Returned(f))]
  /\ pc' = [pc EXCEPT ![f] = "done"]
  /\ trace' = [trace EXCEPT ![f] = Append(@, Ev("scanned", 0))]
  /\ finished' = Append(finished, f)
  /\ overlapped' =
       (overlapped \/ \E g \in Files \ {f} :
                        pc[g] \in {"transformer", "onTransform", "scan"})
  /\ postTokens' = postTokens \cup Elems(Scan(ms[f]))
  /\ UNCHANGED <<options, config, uno, context, cleanup, host, ms, idx,
                 annotations, finalCode, scanInput, cbArgs, bundle, registry>>

\* Variant of ScanFail: the matches of the text are saved before the
\* handler rejects.
ScanFailSaving(f) ==
  /\ pc[f] = "scan"
  /\ tokens' = Save(tokens, Scan(scanInput[f]))
  /\ pc' = [pc EXCEPT ![f] = "failed"]
  /\ trace' = [trace EXCEPT ![f] = Append(@, Ev("throw", 0))]
  /\ UNCHANGED <<options, config, uno, context, cleanup, host, ms, idx,
                 annotations, finalCode, scanInput, result, cbArgs,
                 overlapped, finished, postTokens, bundle, registry>>

\* await uno.generate(finalCode, ...) rejects: the handler rejects.
ScanFail(f) ==
  /\ pc[f] = "scan"
  /\ pc' = [pc EXCEPT ![f] = "failed"]
  /\ trace' = [trace EXCEPT ![f] = Append(@, Ev("throw", 0))]
  /\ UNCHANGED <<options, closure, host, ms, idx, annotations, finalCode,
                 scanInput, result, cbArgs, overlapped, finished, postTokens,
                 bundle, registry>>

\* ------------------------------------------------------------------------
\* generateBundle
\* ------------------------------------------------------------------------
\* Variant of EmitFile: the asset is emitted twice.
EmitFileTwice(em, css) ==
  em \o << [type |-> "asset", source |-> css, fileName |-> fileName],
           [type |-> "asset", source |-> css, fileName |-> fileName] >>

\* this.emitFile({ type: 'asset', source: css, fileName })
EmitFile(em, css) ==
  Append(em, [type |-> "asset", source |-> css, fileName |-> fileName])

\* Variant of GenerateBundleCall: the hook fires without waiting for the
\* handlers that are still suspended.
GenerateBundleCallEarly ==
  /\ phase = "transforming"
  /\ IF ~generateCSS
     THEN /\ phase' = "bundled"
          /\ UNCHANGED <<cssInput, cssCalls>>
     ELSE /\ phase' = "generating"
          /\ cssInput' = tokens
          /\ cssCalls' = cssCalls + 1
  /\ UNCHANGED <<options, closure, build, inputs, handler, emitted, registry>>

\* Variant of GenerateBundleCall: generateCSS is not consulted.
GenerateBundleCallAlways ==
  /\ phase = "transforming"
  /\ \A f \in Matched : inputs[f] # Absent => pc[f] \in {"done", "failed"}
  /\ phase' = "generating"
  /\ cssInput' = tokens
  /\ cssCalls' = cssCalls + 1
  /\ UNCHANGED <<options, closure, build, inputs, handler, emitted, registry>>

\* The host fires generateBundle once every module of the build has been
\* transformed (returned or rejected).  if (!generateCSS) return; otherwise
\* the hook suspends in uno.generate(tokens).
GenerateBundleCall ==
  /\ phase = "transforming"
  /\ \A f \in Matched : inputs[f] # Absent => pc[f] \in {"done", "failed"}
  /\ IF ~generateCSS
     THEN /\ phase' = "bundled"
          /\ UNCHANGED <<cssInput, cssCalls>>
     ELSE /\ phase' = "generating"
          /\ cssInput' = tokens
          /\ cssCalls' = cssCalls + 1
  /\ UNCHANGED <<options, closure, build, inputs, handler, emitted, registry>>

\* const { css } = await uno.generate(tokens) resolves; the asset is emitted.
GenerateReturn ==
  /\ phase = "generating"
  /\ emitted' = EmitFile(emitted, GenerateCSS(cssInput))
  /\ phase' = "bundled"
  /\ UNCHANGED <<options, closure, build, inputs, handler, cssInput,
                 cssCalls, registry>>

\* Variant of GenerateFail: the asset is emitted before the generator's
\* result is awaited.
GenerateFailEmitting ==
  /\ phase = "generating"
  /\ phase' = "bundleFailed"
  /\ emitted' = EmitFile(emitted, {})
  /\ UNCHANGED <<options, closure, build, inputs, handler, cssInput,
                 cssCalls, registry>>

\* uno.generate(tokens) rejects: generateBundle rejects.
GenerateFail ==
  /\ phase = "generating"
  /\ phase' = "bundleFailed"
  /\ UNCHANGED <<options, closure, build, inputs, handler, bundle, registry>>

\* ------------------------------------------------------------------------
\* Specification
\* ------------------------------------------------------------------------
Next ==
  \/ BuildStartCall
  \/ LoadConfigReturn
  \/ CreateGeneratorReturn
  \/ BuildStartFail
  \/ Invalidate
  \/ OnInvalidate
  \/ \E f \in Files : TransformCall(f)
  \/ \E f \in Files : TransformerReturn(f)
  \/ \E f \in Files : TransformerFail(f)
  \/ \E f \in Files : OnTransformReturn(f)
  \/ \E f \in Files : OnTransformFail(f)
  \/ \E f \in Files : ScanReturn(f)
  \/ \E f \in Files : ScanFail(f)
  \/ GenerateBundleCall
  \/ GenerateReturn
  \/ GenerateFail

Spec == Init /\ [][Next]_vars

TypeOK ==
  /\ generateCSS \in BOOLEAN
  /\ phase \in {"idle", "loading", "creating", "transforming", "generating",
                "bundled", "startFailed", "bundleFailed"}
  /\ \A f \in Files : pc[f] \in {"idle", "transformer", "onTransform", "scan",
                                 "done", "failed"}

\* ------------------------------------------------------------------------
\* Properties
\* ------------------------------------------------------------------------
Present == {f \in Matched : inputs[f] # Absent}

\* The text of file f after all its transformers and the onTransform
\* callback, computed from the original text.
PostTransform(f) ==
  CallbackEdit(onTransform, Applied(list, f, inputs[f], 1, Len(list)))

CssRules(S) == {[selector |-> t] : t \in S}

\* C1: the Set generateBundle hands to the generator holds exactly the tokens
\* matched in the post-transform buffers of the files whose transform
\* completed on this plugin instance (postTokens), among them everything the
\* scan of the post-transform text of each file of this build matches, and
\* the emitted stylesheet is the one of exactly these tokens.
C1_PostTransformTokens ==
  (generateCSS /\ phase \in {"generating", "bundled"}) =>
    /\ Elems(cssInput) = postTokens
    /\ \A f \in Present :
         pc[f] = "done" => Elems(Scan(PostTransform(f))) \subseteq Elems(cssInput)
    /\ phase = "bundled" => emitted[1].source = CssRules(postTokens)

\* A first build under <<VariantGroup, Rename>>: "ha" and "hover:b" exist
\* only in the rewritten texts, "hover:a" only in an original text.
C1_Witness ==
  /\ phase = "bundled" /\ generateCSS /\ build = 1
  /\ userConfig = <<VariantGroup, Rename>>
  /\ inputs["a.tsx"] = <<"hover:a", "m-1">> /\ pc["a.tsx"] = "done"
  /\ inputs["b.jsx"] = <<"hover:(a b)", "div">> /\ pc["b.jsx"] = "done"
  /\ Elems(cssInput) = {"ha", "m-1", "hover:b"}
  /\ "hover:a" \in Elems(Scan(inputs["a.tsx"]))

\* C2: with generateCSS false, generateBundle never calls the generator and
\* never emits an asset.
C2_DisabledEmitsNothing ==
  ~generateCSS => (emitted = <<>> /\ cssCalls = 0 /\ phase # "generating")

C2_Witness ==
  /\ ~generateCSS /\ phase = "bundled"
  /\ Len(tokens) >= 3
  /\ \A f \in Matched : pc[f] = "done"

\* C3: a build has at most one asset; once generateBundle has returned it
\* has exactly one if generateCSS is true and none otherwise; the asset is
\* named fileName and carries the generator's CSS for the accumulator; in
\* every other phase of the build (buildStart, transforms, a suspended or
\* failed generateBundle) nothing is emitted.
C3_OneAssetPerBuild ==
  /\ Len(emitted) <= 1
  /\ phase = "bundled" => Len(emitted) = (IF generateCSS THEN 1 ELSE 0)
  /\ phase # "bundled" => emitted = <<>>
  /\ emitted # <<>> =>
       emitted[1] = [type |-> "asset", source |-> GenerateCSS(tokens),
                     fileName |-> "uno.css"]

C3_Witness ==
  /\ phase = "bundled" /\ generateCSS /\ build = 2
  /\ Len(emitted) = 1 /\ emitted[1].source # {}
  /\ \E f \in Files : pc[f] = "done"

\* C4 (as claimed): when no module of the build passes the filter and
\* generateCSS is true, generateBundle calls the generator, emits the asset,
\* and the CSS is the one of the empty token set.
C4_EmptyBuildEmptyCss ==
  (generateCSS /\ phase = "bundled" /\ Present = {}) =>
    /\ cssCalls = 1
    /\ Len(emitted) = 1
    /\ cssInput = <<>>
    /\ emitted[1].source = GenerateCSS(<<>>)

\* --- shapes of a handler's trace ---
Count(tr, e) == Cardinality({i \in 1..Len(tr) : tr[i].ev = e})

\* Position of the first event e in tr, 0 if there is none.
Pos(tr, e) ==
  IF \E i \in 1..Len(tr) : tr[i].ev = e
  THEN CHOOSE i \in 1..Len(tr) :
         tr[i].ev = e /\ \A k \in 1..(i - 1) : tr[k].ev # e
  ELSE 0

AcceptedIdx(f) == {j \in 1..Len(list) : Accepts(list[j], f)}

\* C5: onTransform is called at most once per handler call and exactly once
\* for a handler that got past applyTransformers; before the call every
\* transformer accepted for the file has been called and has returned, and
\* nothing else has happened; the call receives the annotations of these
\* transformers concatenated in list order (none without transformers); the
\* scan is called only after onTransform has returned.  Without the option
\* there is no call.
C5_OnTransformOnce ==
  \A f \in Matched :
    LET tr == trace[f]
        cb == Pos(tr, "onTransform")
        sc == Pos(tr, "scan")
    IN /\ Count(tr, "onTransform") <= 1
       /\ onTransform = "none" => cb = 0
       /\ (onTransform # "none" /\ pc[f] \in {"onTransform", "scan", "done"})
            => cb > 0
       /\ cb > 0 =>
            /\ \A i \in 1..(cb - 1) : tr[i].ev \in {"transform", "transformed"}
            /\ {tr[i].i : i \in {k \in 1..(cb - 1) : tr[k].ev = "transformed"}}
                 = AcceptedIdx(f)
            /\ Count(SubSeq(tr, 1, cb - 1), "transform")
                 = Count(SubSeq(tr, 1, cb - 1), "transformed")
            /\ cbArgs[f] = Collected(list, f, inputs[f], 1, Len(list))
       /\ (sc > 0 /\ onTransform # "none") =>
            /\ cb > 0 /\ sc = cb + 2
            /\ tr[cb + 1].ev = "onTransformed"

\* Two transformers both annotate the file; the callback got both
\* annotations, variantGroup's first.
C5_Witness ==
  /\ onTransform = "append" /\ userConfig = <<VariantGroup, Rename>>
  /\ pc["a.tsx"] = "done" /\ inputs["a.tsx"] = <<"hover:(a b)", "div">>
  /\ cbArgs["a.tsx"] = << [by |-> "variantGroup", offset |-> 1],
                          [by |-> "rename", offset |-> 1] >>
  /\ Count(trace["a.tsx"], "onTransform") = 1

\* C6: whatever the interleaving, once a file's transform has completed the
\* accumulator holds every token the scan of its post-transform text
\* matches; with all files completed it holds the union of their sets.
C6_ConcurrentUnion ==
  \A f \in Present :
    pc[f] = "done" => Elems(Scan(PostTransform(f))) \subseteq Elems(tokens)

\* Two files with disjoint token sets whose handlers overlap: b.jsx
\* returned while a.tsx was suspended, a.tsx returned last.
C6_Witness ==
  /\ build = 1
  /\ overlapped /\ finished = <<"b.jsx", "a.tsx">>
  /\ Elems(Scan(PostTransform("a.tsx"))) = {"hover:a", "hover:b"}
  /\ Elems(Scan(PostTransform("b.jsx"))) = {"ha", "m-1"}
  /\ Elems(tokens) = {"hover:a", "hover:b", "ha", "m-1"}

\* C7: transformers are called in list order, one at a time: in a trace the
\* calls have increasing indices, every call but a pending last one is
\* directly followed by its own return or by the rejection; only
\* transformers whose idFilter accepts the file are called, and all of them
\* once the loop is over; a running transformer sees the buffer and the
\* annotations left by all accepted transformers before it, a rejected one
\* leaves both alone.
C7_TransformersInOrder ==
  \A f \in Matched :
    LET tr == trace[f]
        calls == {i \in 1..Len(tr) : tr[i].ev = "transform"}
    IN /\ \A i \in calls : tr[i].i \in AcceptedIdx(f)
       /\ \A i, k \in calls : i < k => tr[i].i < tr[k].i
       /\ \A i \in calls :
            i < Len(tr) =>
              \/ tr[i + 1] = Ev("transformed", tr[i].i)
              \/ tr[i + 1].ev = "throw"
       /\ pc[f] \in {"onTransform", "scan", "done"} =>
            {tr[i].i : i \in calls} = AcceptedIdx(f)
       /\ pc[f] = "transformer" =>
            /\ idx[f] \in AcceptedIdx(f)
            /\ tr[Len(tr)] = Ev("transform", idx[f])
            /\ ms[f] = Applied(list, f, inputs[f], 1, idx[f] - 1)
            /\ annotations[f] = Collected(list, f, inputs[f], 1, idx[f] - 1)
       /\ pc[f] = "onTransform" =>
            ms[f] = Applied(list, f, inputs[f], 1, Len(list))
       /\ pc[f] \in {"scan", "done"} => ms[f] = PostTransform(f)

\* b.jsx under <<VariantGroupTsx, Strip>>: variantGroup is skipped (the
\* group stays), strip still runs (the div is gone).
C7_Witness ==
  /\ userConfig = <<VariantGroupTsx, Strip>> /\ onTransform = "none"
  /\ pc["b.jsx"] = "done" /\ inputs["b.jsx"] = <<"hover:(a b)", "div">>
  /\ ms["b.jsx"] = <<"hover:(a b)">>
  /\ pc["a.tsx"] = "done" /\ inputs["a.tsx"] = <<"hover:(a b)", "div">>
  /\ ms["a.tsx"] = <<"hover:a", "hover:b">>

\* C8: a handler that returns hands back as code exactly the text it gave
\* the generator to scan, which is the buffer after all transformers and
\* after the edit of onTransform; it does so also when the scan matches
\* nothing, and then the accumulator stays as it was.
C8_ReturnsScannedText ==
  [][\A f \in Matched :
       (pc[f] = "scan" /\ pc'[f] = "done") =>
         /\ result'[f] # NoResult
         /\ result'[f][1].code = scanInput[f]
         /\ scanInput[f] = PostTransform(f)
         /\ Scan(scanInput[f]) = <<>> => tokens' = tokens]_vars

\* The returned code carries the word the callback appended.
C8_Witness ==
  /\ onTransform = "append" /\ userConfig = <<VariantGroup, Rename>>
  /\ pc["a.tsx"] = "done" /\ inputs["a.tsx"] = <<"hover:(a b)", "div">>
  /\ result["a.tsx"] # NoResult
  /\ result["a.tsx"][1].code = <<"ha", "hover:b", "div", "m-1">>
  /\ scanInput["a.tsx"] = result["a.tsx"][1].code

NoDuplicates(s) == \A i, j \in 1..Len(s) : s[i] = s[j] => i = j

\* C9: no step of buildStart, transform, invalidate, onInvalidate or
\* generateBundle removes a token: the accumulator after a step starts with
\* the accumulator before it; and it never holds a token twice, so that
\* saving tokens that are all members already leaves it unchanged.
C9_AccumulatorGrows ==
  [][/\ Len(tokens') >= Len(tokens)
     /\ SubSeq(tokens', 1, Len(tokens)) = tokens
     /\ NoDuplicates(tokens')
     /\ \A f \in Matched :
          (pc[f] = "scan" /\ pc'[f] = "done"
             /\ Elems(Scan(scanInput[f])) \subseteq Elems(tokens))
            => tokens' = tokens]_vars

\* Second build of the instance, after an invalidate(): both files were
\* scanned again for the same two tokens and the accumulator still holds
\* each once.
C9_Witness ==
  /\ build = 2 /\ phase = "bundled" /\ invalidations >= 1
  /\ pc["a.tsx"] = "done" /\ pc["b.jsx"] = "done"
  /\ Scan(scanInput["a.tsx"]) = <<"hover:a", "m-1">>
  /\ Scan(scanInput["b.jsx"]) = <<"hover:a", "m-1">>
  /\ tokens = <<"hover:a", "m-1">>

\* What holds of the handler of file f once a call of it has been rejected.
Rejected(f) ==
  LET tr == trace[f]
      n == Len(tr)
  IN /\ pc[f] = "failed"
     /\ result[f] = NoResult
     /\ n >= 2 /\ tr[n].ev = "throw"
     /\ tr[n - 1].ev \in {"transform", "onTransform", "scan"}
     /\ \A i \in 1..(n - 1) : tr[i].ev # "throw"
     /\ \A i, k \in 1..n : (tr[i] = tr[k]) => i = k

\* C10: when a transformer, onTransform or the scan rejects, the handler is
\* over: the rejection is the last thing in its trace and follows the call
\* that rejected, no call appears twice (no retry), nothing is returned, and
\* until the next build nothing of that handler changes any more (no later
\* transformer, callback or scan).
C10_FailureAborts ==
  [][\A f \in Matched :
       /\ (Count(trace'[f], "throw") > 0 \/ pc'[f] = "failed") => Rejected(f)'
       /\ (pc[f] = "failed" /\ phase' # "loading") =>
            /\ pc'[f] = "failed" /\ trace'[f] = trace[f]
            /\ result'[f] = NoResult /\ ms'[f] = ms[f]
            /\ cbArgs'[f] = cbArgs[f] /\ scanInput'[f] = scanInput[f]]_vars

\* The first of two transformers rejected; the build went on to its end
\* and neither the second transformer nor the callback nor the scan ran.
C10_Witness ==
  /\ userConfig = <<VariantGroup, Rename>> /\ onTransform = "append"
  /\ pc["a.tsx"] = "failed" /\ phase = "bundled"
  /\ trace["a.tsx"] = <<Ev("transform", 1), Ev("throw", 0)>>
  /\ result["a.tsx"] = NoResult

\* C11: a handler that is rejected (in a transformer, in onTransform or in
\* the scan) leaves the accumulator as it is in the step that rejects it,
\* and the accumulator changes only in the step in which some handler
\* returns: so it always holds exactly the tokens of the post-transform
\* texts of the handlers that returned, none of a rejected one; and the Set
\* handed to the generator at finalize holds the tokens of every file of
\* the build that returned, whatever failed beside it.
C11_FailureAddsNothing ==
  [][/\ \A f \in Matched :
          (pc[f] # "failed" /\ pc'[f] = "failed") => tokens' = tokens
     /\ tokens' # tokens =>
          \E f \in Matched : pc[f] = "scan" /\ pc'[f] = "done"
     /\ Elems(tokens') = postTokens'
     /\ (generateCSS /\ phase' \in {"generating", "bundled"}) =>
          \A f \in Present' :
            pc'[f] = "done" =>
              Elems(Scan(scanInput'[f])) \subseteq Elems(cssInput')]_vars

\* b.jsx was rejected in its scan, of a text with two tokens; a.tsx
\* returned; the stylesheet has a.tsx's tokens and only them.
C11_Witness ==
  /\ build = 1 /\ phase = "bundled" /\ generateCSS
  /\ userConfig = <<Rename, VariantGroup>>
  /\ pc["a.tsx"] = "done" /\ inputs["a.tsx"] = <<"hover:(a b)", "div">>
  /\ pc["b.jsx"] = "failed" /\ Scan(scanInput["b.jsx"]) = <<"ha", "m-1">>
  /\ trace["b.jsx"][Len(trace["b.jsx"]) - 1].ev = "scan"
  /\ tokens = <<"hover:a", "hover:b">>
  /\ emitted[1].source = CssRules({"hover:a", "hover:b"})

\* C12: while generateBundle is suspended in the generator nothing is
\* emitted, and when the generator rejects, generateBundle rejects with
\* nothing emitted: the build ends failed, after one generator call and
\* without an asset.
C12_GenerateFailureEmitsNothing ==
  /\ phase = "generating" => (emitted = <<>> /\ cssCalls = 1)
  /\ phase = "bundleFailed" => (emitted = <<>> /\ cssCalls = 1 /\ generateCSS)

C12_Witness ==
  /\ phase = "bundleFailed" /\ emitted = <<>>
  /\ Len(cssInput) >= 2
  /\ \E f \in Files : pc[f] = "done"

\* C13: no step of a handler runs before buildStart has returned: while
\* buildStart has not been called, is suspended in loadConfig or in
\* createGenerator, or was rejected, no handler of the build has started;
\* and whenever a handler has started, the configuration is loaded, the
\* generator exists and was built from that configuration, and the context
\* exists and refers to that generator.
C13_BuildStartBeforeTransforms ==
  /\ phase \in {"idle", "loading", "creating", "startFailed"} =>
       \A f \in Files : pc[f] = "idle"
  /\ \A f \in Files :
       pc[f] # "idle" =>
         /\ config # Unset /\ uno # Unset /\ context # Unset
         /\ uno[1].config.transformers = config[1]
         /\ context[1].uno = uno[1]

\* Second build: one handler is suspended in a transformer, the other in
\* the scan.
C13_Witness ==
  /\ build = 2 /\ phase = "transforming"
  /\ pc["a.tsx"] = "transformer" /\ pc["b.jsx"] = "scan"
  /\ uno # Unset /\ context # Unset

\* C14: generateBundle starts only when every module of the build that
\* passes the filter has a handler that returned or was rejected; from its
\* start to the emission no handler moves and the accumulator does not
\* change; the CSS emitted is the one of the accumulator as it is then.
C14_FinalizeAfterTransforms ==
  [][/\ phase' \in {"generating", "bundled", "bundleFailed"} =>
          \A f \in Matched :
            pc'[f] \in (IF f \in Present' THEN {"done", "failed"} ELSE {"idle"})
     /\ phase = "generating" => (tokens' = tokens /\ pc' = pc)
     /\ (phase = "generating" /\ phase' = "bundled") =>
          /\ cssInput = tokens
          /\ emitted'[1].source = GenerateCSS(tokens')]_vars

\* A build with one handler returned and one rejected, which overlapped,
\* emitted the stylesheet of the whole accumulator.
C14_Witness ==
  /\ phase = "bundled" /\ generateCSS /\ overlapped
  /\ pc["a.tsx"] = "failed" /\ pc["b.jsx"] = "done"
  /\ Len(tokens) = 2
  /\ emitted[1].source = GenerateCSS(tokens)

C16_InvalidateKeepsContext ==
  [][invalidations' # invalidations =>
       /\ invoked' = cleanup'
       /\ UNCHANGED <<tokens, uno, context, config, cleanup>>
       /\ UNCHANGED <<options, host, handler, bundle>>]_vars

\* invalidate() was called twice and the last call ran the two registered
\* callbacks; the build went on: a handler returned with tokens and the
\* asset was emitted.
C16_Witness ==
  /\ invalidations = 2 /\ build = 1
  /\ cleanup = <<1, 2>> /\ invoked = <<1, 2>>
  /\ phase = "bundled" /\ generateCSS /\ Len(emitted) = 1
  /\ pc["a.tsx"] = "done" /\ Len(tokens) >= 2

\* C17 (as claimed): in a build after the first one on the same plugin
\* instance, the Set handed to the generator holds only tokens matched by
\* the handlers that returned since that build's buildStart.
C17_BuildsIsolated ==
  (build >= 2 /\ generateCSS /\ phase \in {"generating", "bundled"}) =>
    Elems(cssInput) \subseteq
      UNION {Elems(Scan(scanInput[f])) : f \in {g \in Present : pc[g] = "done"}}
====
